---- MODULE Spec2Model ----
(***************************************************************************)
(* Escrow marketplace of programs/fashion_market_contract/src/lib.rs:      *)
(* list_nft, remove_listed_nft and buy_nft over Listing records, token     *)
(* accounts (holding accounts and per-mint vault PDAs) and lamport         *)
(* balances.  Every instruction is one atomic transaction: account         *)
(* validation (the #[derive(Accounts)] structs), then the handler; any     *)
(* error leaves the ledger as it was.                                      *)
(***************************************************************************)
EXTENDS Integers, FiniteSets, Sequences, TLC

VARIABLES
    tok,              \* token account -> units held
    bal,              \* wallet -> lamports
    listings,         \* listing address -> Listing record or NoListing
    vaults,           \* mints whose vault PDA has been created
    overflow_checks,  \* build profile: does `*` on u64 panic on overflow?
    created,          \* history: number of Listing records created so far
    bought,           \* history: listing address -> successful buy_nft on the record stored there
    last              \* history: the instruction that committed last

vars == <<tok, bal, listings, vaults, overflow_checks, created, bought, last>>

----------------------------------------------------------------------------
(* Universe of the model *)

\* Number of Listing records created in one behaviour.
MaxListings == 2

Users == {"S", "B"}
Mints == {"M1", "M2"}
ListingAddrs == {"L1", "L2"}
Prices == {0, 1, 2}
Bumps == {254, 255}

\* Token accounts: <<owner, mint>>.  The vault of a mint is the account whose
\* owner tag is VAULT: its address is a function of the mint alone.
VAULT == "vault"
UserAccts == Users \X Mints
VaultAccts == {VAULT} \X Mints
TokenAccts == UserAccts \cup VaultAccts

\* seeds = [PREFIX, b"vault", nft_account.mint], bump
Vault(mint) == <<VAULT, mint>>

\* The canonical bump of each vault address.
VaultBump(mint) == IF mint = "M1" THEN 255 ELSE 254

\* The address signed for by seeds [PREFIX, b"vault", mint, bump]: the vault
\* when the bump is the canonical one, some other address otherwise.
NoAccount == <<"none", "none">>
PdaSigner(mint, bump) == IF bump = VaultBump(mint) THEN Vault(mint) ELSE NoAccount

MintOf(acct) == acct[2]

\* A wallet's address, as an authority or signer of a token instruction.
Wallet(user) == <<"wallet", user>>

\* The authority of a token account: the wallet that owns a holding account,
\* the vault itself for a vault (token::authority = vault).
Authority(acct) == IF acct[1] = VAULT THEN acct ELSE Wallet(acct[1])

NoListing == [is_active |-> FALSE, seller |-> "none", mint |-> "none", price |-> 0, exists |-> FALSE]

Listing(seller, mint, price, is_active) ==
    [is_active |-> is_active, seller |-> seller, mint |-> mint, price |-> price, exists |-> TRUE]

----------------------------------------------------------------------------
(* Numbers *)

LAMPORTS_PER_SOL == 1000000000

\* Width of the machine word of `listing.price * LAMPORTS_PER_SOL`.  The
\* source type is u64; the model keeps the wrap-around but uses the widest
\* power of two whose products stay inside TLC's integers.
U64_BITS == 30
U64_MODULUS == 2 ^ U64_BITS

\* Rent-exempt deposits of the two accounts list_nft may create (`init` and
\* `init_if_needed` with payer = seller), by the cluster's default rent.
LISTING_SPACE == 80 + 8
TOKEN_ACCOUNT_SPACE == 165
RentExempt(space) == (128 + space) * 3480 * 2

\* S can pay the rent of its listings but no price; B can pay one price.
InitBal == [u \in Users |-> IF u = "B" THEN 1010000000 ELSE 10000000]
\* Each mint is a unique asset: 0 decimals (transfer_checked is called with
\* decimals 0) and one unit in existence, held at the start by this wallet.
InitOwner(mint) == IF mint = "M1" THEN "S" ELSE "B"

----------------------------------------------------------------------------
(* The ledger state an instruction reads and writes *)

St == [tok |-> tok, bal |-> bal, listings |-> listings, vaults |-> vaults]

Fail(st, err) == [ok |-> FALSE, err |-> err, st |-> st]
Done(st) == [ok |-> TRUE, err |-> "none", st |-> st]

\* A token account that exists on the ledger: holding accounts always do, a
\* vault once list_nft has created it.
Initialized(st, acct) == acct \in UserAccts \/ (acct \in VaultAccts /\ MintOf(acct) \in st.vaults)

----------------------------------------------------------------------------
(* The two transfer primitives the handlers invoke *)

token_transfer_without_debit(tk, from, to, authority, signers, amount) ==
    IF tk[from] < amount THEN [ok |-> FALSE, err |-> "InsufficientFunds", tok |-> tk]
    ELSE IF MintOf(from) # MintOf(to) THEN [ok |-> FALSE, err |-> "MintMismatch", tok |-> tk]
    ELSE IF authority # Authority(from) THEN [ok |-> FALSE, err |-> "OwnerMismatch", tok |-> tk]
    ELSE IF authority \notin signers THEN [ok |-> FALSE, err |-> "MissingRequiredSignature", tok |-> tk]
    ELSE [ok |-> TRUE, err |-> "none", tok |-> [tk EXCEPT ![to] = @ + amount]]

token_transfer_without_funds_check(tk, from, to, authority, signers, amount) ==
    IF MintOf(from) # MintOf(to) THEN [ok |-> FALSE, err |-> "MintMismatch", tok |-> tk]
    ELSE IF authority # Authority(from) THEN [ok |-> FALSE, err |-> "OwnerMismatch", tok |-> tk]
    ELSE IF authority \notin signers THEN [ok |-> FALSE, err |-> "MissingRequiredSignature", tok |-> tk]
    ELSE IF from = to THEN [ok |-> TRUE, err |-> "none", tok |-> tk]
    ELSE [ok |-> TRUE, err |-> "none",
          tok |-> [tk EXCEPT ![from] = @ - amount, ![to] = @ + amount]]

\* Token program transfer of `amount` units (token_2022::transfer and
\* transfer_checked on a 0-decimals mint).  A transfer from an account to
\* itself is validated and then changes nothing.
token_transfer(tk, from, to, authority, signers, amount) ==
    IF tk[from] < amount THEN [ok |-> FALSE, err |-> "InsufficientFunds", tok |-> tk]
    ELSE IF MintOf(from) # MintOf(to) THEN [ok |-> FALSE, err |-> "MintMismatch", tok |-> tk]
    ELSE IF authority # Authority(from) THEN [ok |-> FALSE, err |-> "OwnerMismatch", tok |-> tk]
    ELSE IF authority \notin signers THEN [ok |-> FALSE, err |-> "MissingRequiredSignature", tok |-> tk]
    ELSE IF from = to THEN [ok |-> TRUE, err |-> "none", tok |-> tk]
    ELSE [ok |-> TRUE, err |-> "none",
          tok |-> [tk EXCEPT ![from] = @ - amount, ![to] = @ + amount]]

system_transfer_crediting_all(bl, from, to, lamports) ==
    IF bl[from] < lamports THEN [ok |-> FALSE, err |-> "InsufficientLamports", bal |-> bl]
    ELSE [ok |-> TRUE, err |-> "none",
          bal |-> [u \in DOMAIN bl |-> IF u = from THEN bl[u] - lamports ELSE bl[u] + lamports]]

\* System program transfer of `lamports` from one wallet to another.
system_transfer(bl, from, to, lamports) ==
    IF bl[from] < lamports THEN [ok |-> FALSE, err |-> "InsufficientLamports", bal |-> bl]
    ELSE [ok |-> TRUE, err |-> "none",
          bal |-> [[bl EXCEPT ![from] = @ - lamports] EXCEPT ![to] = @ + lamports]]

\* listing.price * LAMPORTS_PER_SOL on u64: the product when it fits; on
\* overflow a panic with overflow checks compiled in, the wrapped product
\* without them.
price_in_lamports(price, checks) ==
    LET product == price * LAMPORTS_PER_SOL IN
    IF product < U64_MODULUS THEN [ok |-> TRUE, lamports |-> product]
    ELSE IF checks THEN [ok |-> FALSE, lamports |-> 0]
    ELSE [ok |-> TRUE, lamports |-> product % U64_MODULUS]

----------------------------------------------------------------------------
(* list_nft *)

ListNFT_with_init_if_needed(st, a) ==
    LET listingRent == IF st.listings[a.listing].exists THEN 0 ELSE RentExempt(LISTING_SPACE)
        vaultRent == IF Initialized(st, a.vault) THEN 0 ELSE RentExempt(TOKEN_ACCOUNT_SPACE)
    IN  IF st.bal[a.seller] < listingRent THEN [err |-> "InsufficientLamports", rent |-> 0]
        ELSE IF ~Initialized(st, a.nft_account) THEN [err |-> "AccountNotInitialized", rent |-> 0]
        ELSE IF a.vault # Vault(MintOf(a.nft_account)) THEN [err |-> "ConstraintSeeds", rent |-> 0]
        ELSE IF st.bal[a.seller] < listingRent + vaultRent THEN [err |-> "InsufficientLamports", rent |-> 0]
        ELSE IF a.mint # MintOf(a.nft_account) THEN [err |-> "ConstraintRaw", rent |-> 0]
        ELSE [err |-> "none", rent |-> listingRent + vaultRent]

\* Account validation of ListNFT: `listing` is created (init, payer = seller),
\* `vault` is the PDA of nft_account.mint and is created when absent
\* (init_if_needed, payer = seller), `mint` is the mint of nft_account.
\* Yields the error, or "none" and the lamports the seller deposits as rent.
ListNFT(st, a) ==
    LET listingRent == RentExempt(LISTING_SPACE)
        vaultRent == IF Initialized(st, a.vault) THEN 0 ELSE RentExempt(TOKEN_ACCOUNT_SPACE)
    IN  IF st.listings[a.listing].exists THEN [err |-> "AccountInUse", rent |-> 0]
        ELSE IF st.bal[a.seller] < listingRent THEN [err |-> "InsufficientLamports", rent |-> 0]
        ELSE IF ~Initialized(st, a.nft_account) THEN [err |-> "AccountNotInitialized", rent |-> 0]
        ELSE IF a.vault # Vault(MintOf(a.nft_account)) THEN [err |-> "ConstraintSeeds", rent |-> 0]
        ELSE IF st.bal[a.seller] < listingRent + vaultRent THEN [err |-> "InsufficientLamports", rent |-> 0]
        ELSE IF a.mint # MintOf(a.nft_account) THEN [err |-> "ConstraintRaw", rent |-> 0]
        ELSE [err |-> "none", rent |-> listingRent + vaultRent]

list_nft_without_transfer(st, a) ==
    LET v == ListNFT(st, a) IN
    IF v.err # "none" THEN Fail(st, v.err)
    ELSE Done([tok |-> st.tok,
               bal |-> [st.bal EXCEPT ![a.seller] = @ - v.rent],
               listings |-> [st.listings EXCEPT ![a.listing] =
                                Listing(a.seller, a.mint, a.price, TRUE)],
               vaults |-> st.vaults \cup {MintOf(a.vault)}])

\* The handler: one unit nft_account --> vault on the seller's signature, then
\* the Listing record.
list_nft(st, a) ==
    LET v == ListNFT(st, a) IN
    IF v.err # "none" THEN Fail(st, v.err)
    ELSE
        LET t == token_transfer(st.tok, a.nft_account, a.vault, Wallet(a.seller), {Wallet(a.seller)}, 1) IN
        IF ~t.ok THEN Fail(st, t.err)
        ELSE Done([tok |-> t.tok,
                   bal |-> [st.bal EXCEPT ![a.seller] = @ - v.rent],
                   listings |-> [st.listings EXCEPT ![a.listing] =
                                    Listing(a.seller, a.mint, a.price, TRUE)],
                   vaults |-> st.vaults \cup {MintOf(a.vault)}])

\* The calls of list_nft.
ListArgs ==
    [listing : ListingAddrs, seller : Users, nft_account : TokenAccts, mint : Mints,
     vault : VaultAccts, price : Prices]

----------------------------------------------------------------------------
(* remove_listed_nft *)

RemoveListedNFT_without_has_one(st, a) ==
    LET l == st.listings[a.listing] IN
    IF ~l.exists THEN "AccountNotInitialized"
    ELSE IF ~Initialized(st, a.nft_account) \/ ~Initialized(st, a.vault) THEN "AccountNotInitialized"
    ELSE IF MintOf(a.nft_account) # l.mint THEN "ConstraintRaw"
    ELSE IF a.mint # MintOf(a.nft_account) THEN "ConstraintRaw"
    ELSE IF a.vault # Vault(MintOf(a.nft_account)) THEN "ConstraintSeeds"
    ELSE "none"

RemoveListedNFT_without_mint_constraint(st, a) ==
    LET l == st.listings[a.listing] IN
    IF ~l.exists THEN "AccountNotInitialized"
    ELSE IF ~Initialized(st, a.nft_account) \/ ~Initialized(st, a.vault) THEN "AccountNotInitialized"
    ELSE IF l.seller # a.seller THEN "ConstraintHasOne"
    ELSE IF a.mint # MintOf(a.nft_account) THEN "ConstraintRaw"
    ELSE IF a.vault # Vault(MintOf(a.nft_account)) THEN "ConstraintSeeds"
    ELSE "none"

\* Account validation of RemoveListedNFT: the accounts must exist; then
\* has_one = seller and nft_account.mint == listing.mint on `listing`,
\* mint.key() == nft_account.mint on `mint`, the seeds on `vault`.
RemoveListedNFT(st, a) ==
    LET l == st.listings[a.listing] IN
    IF ~l.exists THEN "AccountNotInitialized"
    ELSE IF ~Initialized(st, a.nft_account) \/ ~Initialized(st, a.vault) THEN "AccountNotInitialized"
    ELSE IF l.seller # a.seller THEN "ConstraintHasOne"
    ELSE IF MintOf(a.nft_account) # l.mint THEN "ConstraintRaw"
    ELSE IF a.mint # MintOf(a.nft_account) THEN "ConstraintRaw"
    ELSE IF a.vault # Vault(MintOf(a.nft_account)) THEN "ConstraintSeeds"
    ELSE "none"

remove_listed_nft_without_close(st, a) ==
    LET e == RemoveListedNFT(st, a) IN
    IF e # "none" THEN Fail(st, e)
    ELSE
        LET signer == PdaSigner(MintOf(a.nft_account), VaultBump(MintOf(a.nft_account)))
            t == token_transfer(st.tok, a.vault, a.nft_account, a.vault, {signer}, 1)
        IN  IF ~t.ok THEN Fail(st, t.err)
            ELSE Done([st EXCEPT !.tok = t.tok])

\* The handler: one unit vault --> nft_account on the vault's PDA signature
\* (ctx.bumps.vault), then the Listing is closed and its rent goes to seller.
remove_listed_nft(st, a) ==
    LET e == RemoveListedNFT(st, a) IN
    IF e # "none" THEN Fail(st, e)
    ELSE
        LET signer == PdaSigner(MintOf(a.nft_account), VaultBump(MintOf(a.nft_account)))
            t == token_transfer(st.tok, a.vault, a.nft_account, a.vault, {signer}, 1)
        IN  IF ~t.ok THEN Fail(st, t.err)
            ELSE Done([tok |-> t.tok,
                       bal |-> [st.bal EXCEPT ![a.seller] = @ + RentExempt(LISTING_SPACE)],
                       listings |-> [st.listings EXCEPT ![a.listing] = NoListing],
                       vaults |-> st.vaults])

\* The calls of remove_listed_nft.
RemoveArgs ==
    [listing : ListingAddrs, seller : Users, nft_account : TokenAccts, mint : Mints,
     vault : VaultAccts]

----------------------------------------------------------------------------
(* buy_nft *)

\* Account validation of BuyNFT: the accounts must exist and `vault` must be
\* the PDA of nft_account.mint.  `seller` is an unchecked AccountInfo and
\* `listing`, `nft_account`, `buyer_token_account` carry no constraint.
BuyNFT(st, a) ==
    IF ~st.listings[a.listing].exists THEN "AccountNotInitialized"
    ELSE IF ~Initialized(st, a.nft_account) \/ ~Initialized(st, a.vault)
            \/ ~Initialized(st, a.buyer_token_account) THEN "AccountNotInitialized"
    ELSE IF a.vault # Vault(MintOf(a.nft_account)) THEN "ConstraintSeeds"
    ELSE "none"

\* The handler after its require!: lamports buyer --> seller; one unit
\* vault --> buyer_token_account on the signature of the seeds with
\* vault_bump; is_active = false.
settle(st, a, checks) ==
    LET l == st.listings[a.listing]
        due == price_in_lamports(l.price, checks)
    IN
    IF ~due.ok THEN Fail(st, "ArithmeticOverflow")
    ELSE
        LET p == system_transfer(st.bal, a.buyer, a.seller, due.lamports) IN
        IF ~p.ok THEN Fail(st, p.err)
        ELSE
            LET signer == PdaSigner(MintOf(a.nft_account), a.vault_bump)
                t == token_transfer(st.tok, a.vault, a.buyer_token_account, a.vault,
                                    {Wallet(a.buyer), signer}, 1)
            IN  IF ~t.ok THEN Fail(st, t.err)
                ELSE Done([tok |-> t.tok,
                           bal |-> p.bal,
                           listings |-> [st.listings EXCEPT ![a.listing].is_active = FALSE],
                           vaults |-> st.vaults])

buy_nft_without_require(st, a, checks) ==
    LET e == BuyNFT(st, a) IN
    IF e # "none" THEN Fail(st, e) ELSE settle(st, a, checks)

\* The handler: require!(listing.is_active, InactiveListing), then the
\* settlement.
buy_nft(st, a, checks) ==
    LET e == BuyNFT(st, a) IN
    IF e # "none" THEN Fail(st, e)
    ELSE IF ~st.listings[a.listing].is_active THEN Fail(st, "InactiveListing")
    ELSE settle(st, a, checks)

\* The calls of buy_nft.  nft_account is read for its mint alone, so one
\* holding account per mint stands for all of them; seller_token_account is
\* never read.
BuyArgs ==
    {[listing |-> l, buyer |-> b, seller |-> s, nft_account |-> <<b, m>>, vault |-> v,
      buyer_token_account |-> d, vault_bump |-> k] :
        l \in ListingAddrs, b \in Users, s \in Users, m \in Mints, v \in VaultAccts,
        d \in TokenAccts, k \in Bumps}

----------------------------------------------------------------------------
(* The transactions *)

NoCall == [op |-> "none", ok |-> FALSE, err |-> "none", listing |-> "none", undo |-> FALSE]

\* What `last` records: the call that last committed; of a list_nft the
\* address of the record it created, and of a remove_listed_nft whether it
\* undid the list_nft just before it.
Call(op, r, a, undo) ==
    [op |-> op, ok |-> r.ok, err |-> r.err,
     listing |-> IF op = "list_nft" THEN a.listing ELSE "none",
     undo |-> undo]

\* A transaction that fails is rolled back whole and leaves every account
\* as it was: it is a stuttering step.  The steps below are the transactions
\* that commit.

Commit(st) ==
    /\ tok' = st.tok
    /\ bal' = st.bal
    /\ listings' = st.listings
    /\ vaults' = st.vaults

Init ==
    /\ tok = [acct \in TokenAccts |-> IF acct[1] = InitOwner(acct[2]) THEN 1 ELSE 0]
    /\ bal = InitBal
    /\ listings = [l \in ListingAddrs |-> NoListing]
    /\ vaults = {}
    /\ overflow_checks \in BOOLEAN
    /\ created = 0
    /\ bought = [l \in ListingAddrs |-> 0]
    /\ last = NoCall

ListNftTx ==
    /\ created < MaxListings
    /\ \E a \in ListArgs :
        LET r == list_nft(St, a) IN
        /\ r.ok
        /\ Commit(r.st)
        /\ created' = created + 1
        /\ bought' = [bought EXCEPT ![a.listing] = 0]
        /\ last' = Call("list_nft", r, a, FALSE)
    /\ UNCHANGED overflow_checks

\* A remove_listed_nft undoes the list_nft just before it when it names the
\* record that call created, is signed by its seller and returns the unit
\* to the seller's holding account.
RemoveListedNftTx ==
    /\ \E a \in RemoveArgs :
        LET r == remove_listed_nft(St, a)
            undo == /\ last.op = "list_nft" /\ last.ok
                    /\ a.listing = last.listing
                    /\ a.seller = listings[a.listing].seller
                    /\ a.nft_account = <<a.seller, listings[a.listing].mint>>
        IN
        /\ r.ok
        /\ Commit(r.st)
        /\ bought' = [bought EXCEPT ![a.listing] = 0]
        /\ last' = Call("remove_listed_nft", r, a, undo)
    /\ UNCHANGED <<overflow_checks, created>>

BuyNftTx ==
    /\ \E a \in BuyArgs :
        LET r == buy_nft(St, a, overflow_checks) IN
        /\ r.ok
        /\ Commit(r.st)
        /\ bought' = [bought EXCEPT ![a.listing] = @ + 1]
        /\ last' = Call("buy_nft", r, a, FALSE)
    /\ UNCHANGED <<overflow_checks, created>>

Next == ListNftTx \/ RemoveListedNftTx \/ BuyNftTx

Spec == Init /\ [][Next]_vars

----------------------------------------------------------------------------
(* Properties *)

Exists(l) == listings[l].exists
Active(l) == listings[l].exists /\ listings[l].is_active
Sold(l) == listings[l].exists /\ ~listings[l].is_active

Buy(a) == buy_nft(St, a, overflow_checks)
Remove(a) == remove_listed_nft(St, a)
List(a) == list_nft(St, a)

RECURSIVE HeldBy(_, _, _)
HeldBy(tk, mint, owners) ==
    IF owners = {} THEN 0
    ELSE LET o == CHOOSE x \in owners : TRUE
         IN  tk[<<o, mint>>] + HeldBy(tk, mint, owners \ {o})

\* Units of `mint` held by the holding accounts and the vault together.
Supply(tk, mint) == HeldBy(tk, mint, Users \cup {VAULT})

\* C1: buy_nft succeeds at most once against a Listing record: no record
\* counts two successful buys, and every buy_nft naming a record that has
\* been bought fails and leaves tokens, lamports and listings as they were,
\* with InactiveListing whenever its accounts pass validation.
C1_BuyAtMostOnce ==
    /\ \A l \in ListingAddrs : bought[l] <= 1
    /\ \A l \in ListingAddrs : bought[l] = 1 => Sold(l)
    /\ \A a \in BuyArgs :
        Sold(a.listing) =>
            LET r == Buy(a) IN
            /\ ~r.ok
            /\ r.st = St
            /\ BuyNFT(St, a) = "none" => r.err = "InactiveListing"

\* A record has been bought once and a further buy_nft on it, with accounts
\* that pass validation, is turned down with InactiveListing.
C1_Witness ==
    \E a \in BuyArgs :
        /\ last.op = "buy_nft"
        /\ bought[a.listing] = 1
        /\ BuyNFT(St, a) = "none"
        /\ Buy(a).err = "InactiveListing"

\* C5: remove_listed_nft signed by anyone but the seller recorded in the
\* Listing fails and changes nothing (listings, vault and holding accounts,
\* lamports); the error is the has_one violation whenever the accounts named
\* exist.
C5_CancelByNonSellerFails ==
    \A a \in RemoveArgs :
        (Exists(a.listing) /\ a.seller # listings[a.listing].seller) =>
            /\ ~Remove(a).ok
            /\ Remove(a).st = St
            /\ (Initialized(St, a.nft_account) /\ Initialized(St, a.vault))
                   => Remove(a).err = "ConstraintHasOne"

\* A Listing is in place, its unit is in the vault, and a cancel naming the
\* right mint but signed by the other wallet is turned down by has_one.
C5_Witness ==
    \E a \in RemoveArgs :
        /\ Active(a.listing)
        /\ a.seller # listings[a.listing].seller
        /\ MintOf(a.nft_account) = listings[a.listing].mint
        /\ tok[a.vault] = 1
        /\ Remove(a).err = "ConstraintHasOne"

\* Token balances `tk` hold as many units of every mint as the current ones.
SameSupply(tk) == tk = tok \/ \A m \in Mints : Supply(tk, m) = Supply(tok, m)

\* C8: for every mint, the units held by the holding accounts and the vault
\* together are the one unit there was at the start: no list_nft,
\* remove_listed_nft or buy_nft, failed or successful, creates or destroys one.
C8_UnitsConserved ==
    /\ \A m \in Mints : Supply(tok, m) = 1
    /\ \A a \in ListArgs : SameSupply(List(a).st.tok)
    /\ \A a \in RemoveArgs : SameSupply(Remove(a).st.tok)
    /\ \A a \in BuyArgs : SameSupply(Buy(a).st.tok)

\* Both units have been relocated: one sits in its vault, the other has been
\* bought and is held by the wallet that did not own it at the start.
C8_Witness ==
    \E m, n \in Mints :
        /\ m # n
        /\ tok[Vault(m)] = 1
        /\ \E u \in Users : u # InitOwner(n) /\ tok[<<u, n>>] = 1
        /\ \E l \in ListingAddrs : Sold(l) /\ listings[l].mint = n

\* The remove_listed_nft that undoes list_nft call `a`: the same seller, the
\* same holding account, the record just created.
Undo(a) ==
    [listing |-> a.listing, seller |-> a.seller, nft_account |-> a.nft_account,
     mint |-> a.mint, vault |-> a.vault]

\* C9: whenever list_nft succeeds, remove_listed_nft by the same seller right
\* after it succeeds, puts the seller's holding account back to the balance
\* it had before list_nft, leaves the vault of that mint at 0 and leaves no
\* Listing record at the address.
C9_ListThenCancelRestores ==
    \A a \in ListArgs :
        List(a).ok =>
            LET r == remove_listed_nft(List(a).st, Undo(a)) IN
            /\ r.ok
            /\ r.st.tok[a.nft_account] = tok[a.nft_account]
            /\ r.st.tok[a.vault] = 0
            /\ ~r.st.listings[a.listing].exists

\* A list_nft has just been undone: the unit is back with a wallet, the
\* vault is empty and the address holds no record.
C9_Witness ==
    /\ last.op = "remove_listed_nft"
    /\ last.undo
    /\ \E m \in Mints :
        /\ m \in vaults
        /\ tok[Vault(m)] = 0
        /\ tok[<<InitOwner(m), m>>] = 1
    /\ \E l \in ListingAddrs : ~Exists(l)

\* The lamports the Listing at `l` asks for: listing.price x LAMPORTS_PER_SOL.
Due(l) == listings[l].price * LAMPORTS_PER_SOL

\* One unit went from the vault of `mint` to a holding account.
Delivered(st, mint) ==
    /\ st.tok[Vault(mint)] = tok[Vault(mint)] - 1
    /\ \E acct \in UserAccts :
        /\ MintOf(acct) = mint
        /\ st.tok[acct] = tok[acct] + 1

\* C2: payment and delivery are coupled in buy_nft.  Stated where the three
\* effects can be told apart (a Listing with a price, bought by a wallet
\* other than its seller): a call either changes nothing, or debits the
\* buyer, credits the Listing's seller, moves one unit from the Listing's
\* vault to a holding account and flips is_active, all together.
C2_PaymentAndDeliveryCoupled ==
    \A a \in BuyArgs :
        (Exists(a.listing) /\ listings[a.listing].price > 0
            /\ a.buyer # listings[a.listing].seller) =>
            LET l == listings[a.listing]
                st == Buy(a).st
                debited == st.bal[a.buyer] < bal[a.buyer]
                credited == st.bal[l.seller] > bal[l.seller]
                delivered == Delivered(st, l.mint)
                flipped == l.is_active /\ ~st.listings[a.listing].is_active
            IN  \/ st = St
                \/ debited /\ credited /\ delivered /\ flipped

\* C3: a successful buy_nft on Listing L credits L.seller with exactly
\* L.price x LAMPORTS_PER_SOL and debits the buyer by as much, whatever
\* `seller` account the call names (a seller buying its own Listing ends
\* with the balance it had).
C3_RecordedSellerIsPaid ==
    \A a \in BuyArgs :
        Buy(a).ok =>
            LET l == listings[a.listing]
                st == Buy(a).st
            IN  IF a.buyer = l.seller
                THEN st.bal = bal
                ELSE /\ st.bal[l.seller] - bal[l.seller] = Due(a.listing)
                     /\ bal[a.buyer] - st.bal[a.buyer] = Due(a.listing)

\* C4: a successful buy_nft on Listing L takes no unit out of the vault of
\* a mint other than L.mint, whatever nft_account, vault and
\* buyer_token_account the call names.
C4_OnlyTheListedAssetLeaves ==
    \A a \in BuyArgs :
        Buy(a).ok =>
            \A m \in Mints \ {listings[a.listing].mint} :
                Buy(a).st.tok[Vault(m)] = tok[Vault(m)]

\* C6: a Listing that has been bought is terminal: remove_listed_nft never
\* succeeds against it, whoever signs and whatever the vault holds.
C6_SoldListingIsTerminal ==
    \A a \in RemoveArgs : Sold(a.listing) => ~Remove(a).ok

\* C7: an active Listing has its unit in the vault of its mint; the unit of
\* a sold Listing is in the vault only if it is listed again; and a vault
\* holds a unit only while an active Listing names its mint.
C7_ListingMatchesVault ==
    /\ \A l \in ListingAddrs : Active(l) => tok[Vault(listings[l].mint)] = 1
    /\ \A l \in ListingAddrs :
        (Sold(l) /\ tok[Vault(listings[l].mint)] = 1) =>
            \E k \in ListingAddrs : Active(k) /\ listings[k].mint = listings[l].mint
    /\ \A m \in Mints :
        tok[Vault(m)] = 1 => \E l \in ListingAddrs : Active(l) /\ listings[l].mint = m

\* C10: buy_nft by a buyer who holds less than the Listing asks for fails
\* and changes nothing: the unit stays in the vault, the Listing stays
\* active, no balance moves.
C10_InsufficientBalanceFails ==
    \A a \in BuyArgs :
        (Active(a.listing) /\ bal[a.buyer] < Due(a.listing)) =>
            /\ ~Buy(a).ok
            /\ Buy(a).st = St

\* C11: at most one active Listing refers to the vault of a mint: no two
\* active records name the same mint, and a list_nft for a mint that has an
\* active Listing fails and changes nothing, whoever calls it and whatever
\* listing address it names.
C11_OneActiveListingPerVault ==
    /\ \A l, k \in ListingAddrs :
        (Active(l) /\ Active(k) /\ listings[l].mint = listings[k].mint) => l = k
    /\ \A a \in ListArgs :
        (\E l \in ListingAddrs : Active(l) /\ listings[l].mint = a.mint) =>
            /\ ~List(a).ok
            /\ List(a).st = St

\* Every vault of `tk` holds no unit or one.
VaultsHoldAtMostOne(tk) == \A m \in Mints : tk[Vault(m)] \in {0, 1}

RemovesOf(l) == {a \in RemoveArgs : a.listing = l}
BuysOf(l) == {a \in BuyArgs : a.listing = l}

\* C13: a remove_listed_nft and a buy_nft against the same active Listing:
\* whichever commits first, the other then fails and changes nothing, so
\* exactly one of the two takes effect.
C13_CancelAndBuyExclude ==
    \A l \in ListingAddrs :
        Active(l) =>
            /\ \A b \in BuysOf(l) :
                Buy(b).ok =>
                    \A c \in RemovesOf(l) :
                        LET r == remove_listed_nft(Buy(b).st, c)
                        IN  ~r.ok /\ r.st = Buy(b).st
            /\ \A c \in RemovesOf(l) :
                Remove(c).ok =>
                    \A b \in BuysOf(l) :
                        LET r == buy_nft(Remove(c).st, b, overflow_checks)
                        IN  ~r.ok /\ r.st = Remove(c).st

\* C14: remove_listed_nft naming a holding account of a mint other than the
\* Listing's fails and changes nothing (the Listing stays, no vault balance
\* moves); when the recorded seller signs and the accounts exist the error
\* is the violation of nft_account.mint == listing.mint.
C14_CancelWithOtherMintFails ==
    \A a \in RemoveArgs :
        (Exists(a.listing) /\ MintOf(a.nft_account) # listings[a.listing].mint) =>
            /\ ~Remove(a).ok
            /\ Remove(a).st = St
            /\ (/\ a.seller = listings[a.listing].seller
                /\ Initialized(St, a.nft_account)
                /\ Initialized(St, a.vault))
                   => Remove(a).err = "ConstraintRaw"

\* The seller of a Listing of one mint asks for the unit another mint's
\* vault holds, with the accounts of that other mint, and is turned down on
\* the mint constraint.
C14_Witness ==
    \E a \in RemoveArgs :
        /\ Exists(a.listing)
        /\ a.seller = listings[a.listing].seller
        /\ MintOf(a.nft_account) # listings[a.listing].mint
        /\ a.mint = MintOf(a.nft_account)
        /\ a.vault = Vault(a.mint)
        /\ tok[a.vault] = 1
        /\ Remove(a).err = "ConstraintRaw"

\* The records of `ls` other than the one at `l` are the current ones.
OthersKept(ls, l) == \A k \in ListingAddrs \ {l} : ls[k] = listings[k]

\* The record at `l`, where `ls` still holds it, has the seller, mint and
\* price it has now.
FieldsKept(ls, l) ==
    (Exists(l) /\ ls[l].exists) =>
        /\ ls[l].seller = listings[l].seller
        /\ ls[l].mint = listings[l].mint
        /\ ls[l].price = listings[l].price

\* C15: seller, mint and price of a Listing keep the values list_nft gave
\* them while the record exists: buy_nft changes is_active of the record it
\* names and nothing else, and no list_nft, remove_listed_nft or buy_nft
\* changes a record other than the one it names.
C15_ListingFieldsImmutable ==
    /\ \A a \in BuyArgs :
        LET r == Buy(a) IN
        IF r.ok
        THEN r.st.listings = [listings EXCEPT ![a.listing].is_active = FALSE]
        ELSE r.st.listings = listings
    /\ \A a \in ListArgs :
        LET r == List(a) IN
        \/ r.st.listings = listings
        \/ OthersKept(r.st.listings, a.listing) /\ FieldsKept(r.st.listings, a.listing)
    /\ \A a \in RemoveArgs :
        LET r == Remove(a) IN
        \/ r.st.listings = listings
        \/ OthersKept(r.st.listings, a.listing) /\ FieldsKept(r.st.listings, a.listing)

\* A buy_nft has just committed on a priced record while another record is
\* active, and a list_nft naming the address of the bought record is turned
\* down because the account is in use.
C15_Witness ==
    /\ last.op = "buy_nft"
    /\ \E l, k \in ListingAddrs :
        /\ Sold(l) /\ listings[l].price = 1
        /\ Active(k)
        /\ \E a \in ListArgs : a.listing = l /\ List(a).err = "AccountInUse"

\* The holding account `acct` can supply one unit on the signature of `user`.
CanSupply(user, acct) == Authority(acct) = Wallet(user) /\ tok[acct] >= 1

\* C16: list_nft succeeds only when the signing seller's holding account
\* can supply one unit; on success the record is (seller = signer, mint,
\* price, is_active = TRUE), price 0 included, and one unit has gone from
\* the holding account to the vault and no other unit has moved; when the
\* account cannot supply the unit the call fails, creates no record and
\* changes no balance.
C16_ListDepositsOneUnit ==
    \A a \in ListArgs :
        LET r == List(a) IN
        /\ r.ok =>
            /\ CanSupply(a.seller, a.nft_account)
            /\ r.st.listings[a.listing] = Listing(a.seller, a.mint, a.price, TRUE)
            /\ r.st.tok = [tok EXCEPT ![a.nft_account] = @ - 1, ![Vault(a.mint)] = @ + 1]
        /\ ~CanSupply(a.seller, a.nft_account) =>
            /\ ~r.ok
            /\ r.st = St

\* A list_nft with price 0 has just committed and created the record, and
\* a further list_nft by the same seller for the same mint is turned down:
\* the holding account has nothing left to deposit.
C16_Witness ==
    /\ last.op = "list_nft"
    /\ \E l \in ListingAddrs :
        /\ Active(l) /\ listings[l].price = 0
        /\ tok[Vault(listings[l].mint)] = 1
        /\ \E a \in ListArgs :
            /\ a.seller = listings[l].seller
            /\ a.mint = listings[l].mint
            /\ a.nft_account = <<a.seller, a.mint>>
            /\ List(a).err = "InsufficientFunds"

\* C17: the lamports a successful buy_nft moves from the buyer to the
\* account it pays are the product listing.price x LAMPORTS_PER_SOL, for
\* every price list_nft accepts: the multiplication never wraps.  (Stated
\* for a payee other than the buyer, where the amount moved shows in both
\* balances.)
C17_AmountIsTheProduct ==
    \A a \in BuyArgs :
        (Buy(a).ok /\ a.buyer # a.seller) =>
            /\ bal[a.buyer] - Buy(a).st.bal[a.buyer] = Due(a.listing)
            /\ Buy(a).st.bal[a.seller] - bal[a.seller] = Due(a.listing)

\* C18: a unit leaves the vault of a mint only through an authorised exit:
\* a call that lowers the balance of the vault of mint m is a
\* remove_listed_nft signed by the seller of an active Listing of m, named
\* by the call, or a buy_nft naming an active Listing of m; list_nft lowers
\* no vault.
C18_OnlyAuthorisedExits ==
    \A m \in Mints :
        /\ \A a \in RemoveArgs :
            Remove(a).st.tok[Vault(m)] < tok[Vault(m)] =>
                /\ Active(a.listing)
                /\ listings[a.listing].mint = m
                /\ listings[a.listing].seller = a.seller
        /\ \A a \in BuyArgs :
            Buy(a).st.tok[Vault(m)] < tok[Vault(m)] =>
                /\ Active(a.listing)
                /\ listings[a.listing].mint = m
        /\ \A a \in ListArgs :
            List(a).st.tok[Vault(m)] >= tok[Vault(m)]

\* The lamports wallet `u` has in `st`, less those it has now.
Gain(st, u) == st.bal[u] - bal[u]

\* C19: each instruction touches only what its accounts name.  buy_nft
\* debits no wallet but the buyer's, changes no wallet other than the
\* buyer's and the payee's, no token account other than the vault and the
\* buyer_token_account, and no Listing other than the one it names.
\* list_nft and remove_listed_nft pay no wallet a price: no wallet but the
\* signer's changes, the signer's only by the rent deposited or refunded,
\* and no Listing changes other than the one created or closed.  (A call
\* that leaves the ledger as it was touches nothing.)
C19_OnlyNamedPartiesTouched ==
    /\ \A a \in BuyArgs :
        LET r == Buy(a) IN
        \/ r.st = St
        \/ /\ \A u \in Users \ {a.buyer} : Gain(r.st, u) >= 0
           /\ \A u \in Users \ {a.buyer, a.seller} : Gain(r.st, u) = 0
           /\ \A acct \in TokenAccts \ {a.vault, a.buyer_token_account} :
               r.st.tok[acct] = tok[acct]
           /\ OthersKept(r.st.listings, a.listing)
    /\ \A a \in ListArgs :
        LET r == List(a) IN
        \/ r.st = St
        \/ /\ \A u \in Users \ {a.seller} : Gain(r.st, u) = 0
           /\ -Gain(r.st, a.seller) \in
                  {RentExempt(LISTING_SPACE),
                   RentExempt(LISTING_SPACE) + RentExempt(TOKEN_ACCOUNT_SPACE)}
           /\ OthersKept(r.st.listings, a.listing)
    /\ \A a \in RemoveArgs :
        LET r == Remove(a) IN
        \/ r.st = St
        \/ /\ \A u \in Users \ {a.seller} : Gain(r.st, u) = 0
           /\ Gain(r.st, a.seller) = RentExempt(LISTING_SPACE)
           /\ OthersKept(r.st.listings, a.listing)

\* A buy_nft has just paid the seller a price while another Listing is
\* active, and a buy_nft in which the buyer names itself as the payee is
\* possible: the other wallet is then a third party.
C19_Witness ==
    /\ last.op = "buy_nft"
    /\ bal["S"] > InitBal["S"]
    /\ \E l, k \in ListingAddrs :
        /\ Sold(l) /\ listings[l].price = 1
        /\ Active(k) /\ listings[k].price = 1
        /\ \E a \in BuyArgs : a.listing = k /\ a.seller = a.buyer /\ Buy(a).ok

====
